---- MODULE Spec2Model ----
(***************************************************************************)
(* Model of daft/runners/pyrunner.py: the dispatch/await loop of          *)
(* PyRunner._physical_plan_to_partitions with its admission controller,   *)
(* PyRunner.run, and LocalPartitionSet.                                    *)
(***************************************************************************)
EXTENDS Integers, Sequences, FiniteSets, TLC

\* ------------------------------------------------------------------ bounds
\* Number of steps the plan hands out before it signals exhaustion.
MaxSteps == 3
\* Largest partition index used with a LocalPartitionSet on its own.
MaxIdx == 2

\* ------------------------------------------------------------ input domains
\* Python's None for an unset ResourceRequest field or an idle next_step.
None == -1

\* Values multiprocessing.cpu_count(), cuda_device_count() and
\* psutil.virtual_memory().total report on the modelled hosts.
CpuCounts == {4}
GpuCounts == {1}
MemoryTotals == {3}

\* A partition is a list of rows.
Partitions == {<<1>>, <<2>>}
\* The inputs of a task: an ordered list of partitions.
InputLists == {<<(<<1>>), (<<2>>)>>}

VARIABLES
    num_cpus, num_gpus, bytes_memory, use_thread_pool,   \* PyRunner fields
    task_kinds,       \* the kinds of task the plan is made of
    pc,               \* position of the control thread
    err,              \* exception leaving the generator, "none" if none
    next_step,        \* the pending step
    inflight_tasks, inflight_tasks_resources, future_to_task,
    future,           \* the futures of the thread pool, by handle
    done_set,         \* futures of the current Await phase still to process
    pulled,           \* number of steps the plan has handed out
    exhausted,        \* the plan has signalled exhaustion
    produced,         \* final results the plan has handed out, in order
    yielded,          \* results yielded to the caller, in order
    task,             \* every task pulled so far, by id
    runs,             \* per task id: times its pipeline has run
    sets,             \* per task id: times set_result was called
    result,           \* per task id: the result slot
    i,                \* loop index of PyRunner.run
    partitions,       \* LocalPartitionSet._partitions, insertion ordered
    cache,            \* partition sets put into the cache
    merged,           \* the _get_merged_vpartition call just made, if any
    sized             \* the size_bytes call just made, if any

vars == <<num_cpus, num_gpus, bytes_memory, use_thread_pool, task_kinds,
          pc, err,
          next_step, inflight_tasks, inflight_tasks_resources,
          future_to_task, future, done_set, pulled, exhausted, produced,
          yielded,
          task, runs, sets, result, i, partitions, cache, merged, sized>>

runner_vars == <<num_cpus, num_gpus, bytes_memory, use_thread_pool,
                 task_kinds>>
ledger_vars == <<inflight_tasks, inflight_tasks_resources, future_to_task>>
task_vars == <<runs, sets, result>>
plan_vars == <<pulled, exhausted, next_step, produced, task>>
pset_vars == <<i, partitions, cache, merged, sized>>

\* ------------------------------------------------------------------ helpers
Range(f) == {f[x] : x \in DOMAIN f}
Put(f, k, v) == [x \in DOMAIN f \cup {k} |-> IF x = k THEN v ELSE f[x]]
Drop(f, k) == [x \in DOMAIN f \ {k} |-> f[x]]

\* ResourceRequest(num_cpus, num_gpus, memory_bytes), all unset by default.
ResourceRequest(c, g, m) == [num_cpus |-> c, num_gpus |-> g, memory_bytes |-> m]

\* The resource requests tasks come with: each dimension on its own, below,
\* at and above the capacity of the modelled hosts, and one request that
\* asks for CPUs and memory together.
Requests ==
    {ResourceRequest(c, None, None) : c \in {None, 2, 3, 5}}
    \cup {ResourceRequest(None, g, None) : g \in {0, 1, 2}}
    \cup {ResourceRequest(None, None, m) : m \in {2, 4}}
    \cup {ResourceRequest(3, None, 2)}

\* Instruction pipelines: "rev" reverses the partition list, "raise" fails
\* with an ordinary exception, "stop" fails with StopIteration.
\* The tasks of the modelled plans: a pipeline and a request.
TaskKinds ==
    {<<(<<"rev">>), r>> : r \in Requests}
    \cup {<<(<<>>), r>> : r \in {ResourceRequest(None, None, None),
                                 ResourceRequest(2, None, None)}}
    \cup {<<ins, ResourceRequest(None, None, None)>> :
            ins \in {<<"raise">>, <<"stop">>}}

\* x or 0
OrZero(x) == IF x = None THEN 0 ELSE x

\* ResourceRequest.__add__: elementwise, an unset field counting as zero.
AddField(a, b) == IF a = None /\ b = None THEN None ELSE OrZero(a) + OrZero(b)
AddRequests(a, b) ==
    ResourceRequest(AddField(a.num_cpus, b.num_cpus),
                    AddField(a.num_gpus, b.num_gpus),
                    AddField(a.memory_bytes, b.memory_bytes))

\* The sum that forgets what is in flight.
MutSumRequests(reqs) == ResourceRequest(None, None, None)

\* sum(inflight_resources, ResourceRequest())
RECURSIVE SumRequests(_)
SumRequests(reqs) ==
    IF DOMAIN reqs = {} THEN ResourceRequest(None, None, None)
    ELSE LET k == CHOOSE x \in DOMAIN reqs : TRUE
         IN  AddRequests(SumRequests(Drop(reqs, k)), reqs[k])

\* ------------------------------------------------------- admission control
\* The validation that forgets the memory dimension.
MutCheckRaises(resource_request) ==
    \/ resource_request.num_cpus # None /\ resource_request.num_cpus > num_cpus
    \/ resource_request.num_gpus # None /\ resource_request.num_gpus > num_gpus

\* _check_resource_requests: TRUE iff it raises RuntimeError.
CheckRaises(resource_request) ==
    \/ resource_request.num_cpus # None /\ resource_request.num_cpus > num_cpus
    \/ resource_request.num_gpus # None /\ resource_request.num_gpus > num_gpus
    \/ resource_request.memory_bytes # None
         /\ resource_request.memory_bytes > bytes_memory

\* The admission test that wants a CPU to spare.
MutCanAdmitTaskStrictCpus(resource_request, inflight_resources) ==
    LET total == SumRequests(inflight_resources)
    IN  /\ OrZero(total.num_cpus) + OrZero(resource_request.num_cpus) < num_cpus
        /\ OrZero(total.num_gpus) + OrZero(resource_request.num_gpus) <= num_gpus
        /\ OrZero(total.memory_bytes) + OrZero(resource_request.memory_bytes)
              <= bytes_memory

\* The admission test that wants a GPU to spare.
MutCanAdmitTaskStrictGpus(resource_request, inflight_resources) ==
    LET total == SumRequests(inflight_resources)
    IN  /\ OrZero(total.num_cpus) + OrZero(resource_request.num_cpus) <= num_cpus
        /\ OrZero(total.num_gpus) + OrZero(resource_request.num_gpus) < num_gpus
        /\ OrZero(total.memory_bytes) + OrZero(resource_request.memory_bytes)
              <= bytes_memory

\* The admission test that looks at the CPUs only.
MutCanAdmitTask(resource_request, inflight_resources) ==
    OrZero(SumRequests(inflight_resources).num_cpus)
        + OrZero(resource_request.num_cpus) <= num_cpus

\* _can_admit_task, once _check_resource_requests has passed.
CanAdmitTask(resource_request, inflight_resources) ==
    LET total_inflight_resources == SumRequests(inflight_resources)
        cpus_okay == OrZero(total_inflight_resources.num_cpus)
                       + OrZero(resource_request.num_cpus) <= num_cpus
        gpus_okay == OrZero(total_inflight_resources.num_gpus)
                       + OrZero(resource_request.num_gpus) <= num_gpus
        memory_okay == OrZero(total_inflight_resources.memory_bytes)
                       + OrZero(resource_request.memory_bytes) <= bytes_memory
    IN  cpus_okay /\ gpus_okay /\ memory_okay

\* ------------------------------------------------------------ task executor
Reverse(s) == [k \in 1..Len(s) |-> s[Len(s) + 1 - k]]

\* Instruction.run on a list of partitions: the new list, or the exception.
InstructionRun(instruction, parts) ==
    CASE instruction = "rev"   -> [exc |-> "none", partitions |-> Reverse(parts)]
      [] instruction = "raise" -> [exc |-> "Exception", partitions |-> <<>>]
      [] instruction = "stop"  -> [exc |-> "StopIteration", partitions |-> <<>>]

\* build_partitions: thread the inputs through the instructions in order.
RECURSIVE BuildFrom(_, _)
BuildFrom(instruction_stack, parts) ==
    IF instruction_stack = <<>> THEN [exc |-> "none", partitions |-> parts]
    ELSE LET r == InstructionRun(Head(instruction_stack), parts)
         IN  IF r.exc # "none" THEN r
             ELSE BuildFrom(Tail(instruction_stack), r.partitions)

build_partitions(instruction_stack, inputs) == BuildFrom(instruction_stack, inputs)

\* ---------------------------------------------------------------- the plan
NoneStep == [kind |-> "none", id |-> 0, instructions |-> <<>>, inputs |-> <<>>,
             resource_request |-> ResourceRequest(None, None, None),
             partition |-> <<>>]
ResultStep(p) == [NoneStep EXCEPT !.kind = "result", !.partition = p]
TaskStep(id, ins, inp, req) ==
    [NoneStep EXCEPT !.kind = "task", !.id = id, !.instructions = ins,
                     !.inputs = inp, !.resource_request = req]

\* What next(plan) may hand out as its n-th step.
PlanSteps(n) ==
    {NoneStep} \cup {ResultStep(p) : p \in Partitions}
    \cup {TaskStep(n, k[1], inp, k[2]) : k \in task_kinds, inp \in InputLists}

\* An exception raised inside the try block: StopIteration is caught and the
\* generator returns, anything else leaves the generator.  Either way the
\* with block of the thread pool is left next.
Leave(exc) ==
    /\ pc' = "shutdown"
    /\ err' = IF exc = "StopIteration" THEN "none" ELSE exc

\* next_step = next(plan): a step, or StopIteration at exhaustion.
PullStep(step) ==
    /\ pulled < MaxSteps
    /\ step \in PlanSteps(pulled + 1)
    /\ pulled' = pulled + 1
    /\ exhausted' = exhausted
    /\ next_step' = step
    /\ produced' = IF step.kind = "result"
                   THEN Append(produced, step.partition) ELSE produced
    /\ task' = IF step.kind = "task" THEN Put(task, step.id, step) ELSE task
    /\ pc' = "dispatch"
    /\ err' = err

PlanExhausted ==
    /\ Leave("StopIteration")
    /\ exhausted' = TRUE
    /\ UNCHANGED <<pulled, next_step, produced, task>>

NextOfPlan == (\E step \in PlanSteps(pulled + 1) : PullStep(step)) \/ PlanExhausted

\* -------------------------------------------------------- results and sets
\* PyMaterializedResult(partition) and its partition() accessor.
PyMaterializedResult(p) == [partition |-> p]
partition(r) == r.partition

\* [PyMaterializedResult(partition) for partition in partitions]
Materialize(parts) == [k \in 1..Len(parts) |-> PyMaterializedResult(parts[k])]

\* LocalPartitionSet._partitions is a dict: a list of (idx, partition) pairs
\* in insertion order, no idx twice.
has_partition(ps, idx) == \E k \in 1..Len(ps) : ps[k][1] = idx

get_partition(ps, idx) ==
    LET k == CHOOSE k \in 1..Len(ps) : ps[k][1] = idx IN ps[k][2]

\* self._partitions[idx] = part.partition()
set_partition(ps, idx, part) ==
    IF has_partition(ps, idx)
    THEN [k \in 1..Len(ps) |->
            IF ps[k][1] = idx THEN <<idx, partition(part)>> ELSE ps[k]]
    ELSE Append(ps, <<idx, partition(part)>>)

\* del self._partitions[idx]
delete_partition(ps, idx) == SelectSeq(ps, LAMBDA e : e[1] # idx)

\* The items in insertion order, unsorted.
MutItems(ps) == ps

\* sorted(self._partitions.items())
items(ps) == SortSeq(ps, LAMBDA a, b : a[1] < b[1])

\* MicroPartition.concat: the rows of the partitions, one after the other.
RECURSIVE Concat(_)
Concat(parts) ==
    IF parts = <<>> THEN <<>> ELSE Head(parts) \o Concat(Tail(parts))

\* The partitions that cannot tell their size.
UnsizedPartitions == {<<3>>}

\* MicroPartition.size_bytes: the bytes of the rows, a row of value v taking
\* v bytes, or None when the partition cannot tell.
RECURSIVE partition_size_bytes(_)
partition_size_bytes(p) ==
    IF p \in UnsizedPartitions THEN None
    ELSE IF p = <<>> THEN 0
    ELSE Head(p) + partition_size_bytes(Tail(p))

\* sum(sizes)
RECURSIVE SumSeq(_)
SumSeq(sizes) ==
    IF sizes = <<>> THEN 0 ELSE Head(sizes) + SumSeq(Tail(sizes))

\* LocalPartitionSet.size_bytes: the total, None when a size is unknown.
size_bytes(ps) ==
    LET size_bytes_ == [k \in 1..Len(ps) |-> partition_size_bytes(ps[k][2])]
        known == SelectSeq(size_bytes_, LAMBDA size : size # None)
    IN  IF Len(known) # Len(size_bytes_) THEN None ELSE SumSeq(known)

\* _get_merged_vpartition: the merged partition, or the exception raised.
get_merged_vpartition(ps) ==
    LET ids_and_partitions == items(ps)
        n == Len(ids_and_partitions)
    IN  IF n = 0
        THEN [exc |-> "IndexError", partition |-> <<>>]
        ELSE IF ids_and_partitions[1][1] # 0
        THEN [exc |-> "AssertionError", partition |-> <<>>]
        ELSE IF ids_and_partitions[n][1] + 1 # n
        THEN [exc |-> "AssertionError", partition |-> <<>>]
        ELSE [exc |-> "none",
              partition |-> Concat([k \in 1..n |-> ids_and_partitions[k][2]])]

\* ------------------------------------------------------------------- Init
\* merged when the last call on the partition set was no merge.
NotMerged == [of |-> <<>>, out |-> [exc |-> "unset", partition |-> <<>>]]

\* sized when the last call on the partition set was no size_bytes.
NotSized == [called |-> FALSE, of |-> <<>>, out |-> None]

\* The runner after construction, the control thread at position at, for
\* plans made of the given kinds of task.
InitWith(at, kinds) ==
    /\ task_kinds = kinds
    /\ num_cpus \in CpuCounts
    /\ num_gpus \in GpuCounts
    /\ bytes_memory \in MemoryTotals
    /\ \E arg \in {None, 0, 1} :
         use_thread_pool = IF arg # None THEN arg = 1 ELSE TRUE
    /\ pc = at
    /\ err = "none"
    /\ next_step = NoneStep
    /\ inflight_tasks = <<>>
    /\ inflight_tasks_resources = <<>>
    /\ future_to_task = <<>>
    /\ future = <<>>
    /\ done_set = {}
    /\ pulled = 0
    /\ exhausted = FALSE
    /\ produced = <<>>
    /\ yielded = <<>>
    /\ task = <<>>
    /\ runs = [n \in 1..MaxSteps |-> 0]
    /\ sets = [n \in 1..MaxSteps |-> 0]
    /\ result = [n \in 1..MaxSteps |-> <<>>]
    /\ i = 0
    /\ partitions = <<>>
    /\ cache = <<>>
    /\ merged = NotMerged
    /\ sized = NotSized

InitAt(at) == InitWith(at, TaskKinds)

Init == InitAt("start")

\* -------------------------------------------------------- the dispatch loop
\* next_step = next(plan), before the loop.
Start ==
    /\ pc = "start"
    /\ NextOfPlan
    /\ UNCHANGED <<runner_vars, ledger_vars, future, done_set, yielded,
                   task_vars, pset_vars>>

\* next_step is None: blocked on dispatched tasks, go and await.
DispatchNone ==
    /\ pc = "dispatch"
    /\ next_step.kind = "none"
    /\ pc' = "await"
    /\ UNCHANGED <<runner_vars, err, plan_vars, ledger_vars, future, done_set,
                   yielded, task_vars, pset_vars>>

\* The yield that hands a result over ahead of the earlier ones.
MutYield(received, step) == <<PyMaterializedResult(step.partition)>> \o received

\* yield next_step: the caller receives it after all it has received so far.
Yield(received, step) == Append(received, PyMaterializedResult(step.partition))

\* A final result: yield it and pull the next step.
DispatchResult ==
    /\ pc = "dispatch"
    /\ next_step.kind = "result"
    /\ yielded' = Yield(yielded, next_step)
    /\ NextOfPlan
    /\ UNCHANGED <<runner_vars, ledger_vars, future, done_set, task_vars,
                   pset_vars>>

\* _can_admit_task raises from _check_resource_requests.
DispatchInvalid ==
    /\ pc = "dispatch"
    /\ next_step.kind = "task"
    /\ CheckRaises(next_step.resource_request)
    /\ Leave("RuntimeError")
    /\ UNCHANGED <<runner_vars, plan_vars, ledger_vars, future, done_set,
                   yielded, task_vars, pset_vars>>

\* Insufficient resources: go and await, the step stays pending.
DispatchRefused ==
    /\ pc = "dispatch"
    /\ next_step.kind = "task"
    /\ ~CheckRaises(next_step.resource_request)
    /\ ~CanAdmitTask(next_step.resource_request, inflight_tasks_resources)
    /\ pc' = "await"
    /\ UNCHANGED <<runner_vars, err, plan_vars, ledger_vars, future, done_set,
                   yielded, task_vars, pset_vars>>

\* The placement that keeps every task with a GPU count, 0 included, in the
\* main thread.
MutRunsInlineAnyGpu(step) ==
    \/ ~use_thread_pool
    \/ Len(step.instructions) = 0
    \/ step.resource_request.num_gpus # None

\* The placement that sends tasks asking for GPUs to the thread pool.
MutRunsInlineNoGpu(step) ==
    \/ ~use_thread_pool
    \/ Len(step.instructions) = 0

\* The placement that sends no-op tasks to the thread pool.
MutRunsInline(step) ==
    \/ ~use_thread_pool
    \/ (step.resource_request.num_gpus # None
          /\ step.resource_request.num_gpus > 0)

\* The condition under which an admitted task runs in the main thread.
RunsInline(step) ==
    \/ ~use_thread_pool
    \/ Len(step.instructions) = 0
    \/ (step.resource_request.num_gpus # None
          /\ step.resource_request.num_gpus > 0)

Admitted ==
    /\ pc = "dispatch"
    /\ next_step.kind = "task"
    /\ ~CheckRaises(next_step.resource_request)
    /\ CanAdmitTask(next_step.resource_request, inflight_tasks_resources)

\* Run the task synchronously in the main thread, then pull the next step.
RunInline ==
    /\ Admitted
    /\ RunsInline(next_step)
    /\ LET built == build_partitions(next_step.instructions, next_step.inputs)
           id == next_step.id
       IN  /\ runs' = [runs EXCEPT ![id] = @ + 1]
           /\ IF built.exc # "none"
              THEN /\ Leave(built.exc)
                   /\ UNCHANGED <<plan_vars, sets, result>>
              ELSE /\ sets' = [sets EXCEPT ![id] = @ + 1]
                   /\ result' = [result EXCEPT ![id] = Materialize(built.partitions)]
                   /\ NextOfPlan
    /\ UNCHANGED <<runner_vars, ledger_vars, future, done_set, yielded,
                   pset_vars>>

\* A handle for the future thread_pool.submit returns.
NewFuture == pulled

\* Submit the task to the thread pool, register it, then pull the next step.
Submit ==
    /\ Admitted
    /\ ~RunsInline(next_step)
    /\ LET f == NewFuture
           id == next_step.id
       IN  /\ future' = Put(future, f,
                  [state |-> "running", id |-> id,
                   instructions |-> next_step.instructions,
                   inputs |-> next_step.inputs,
                   outcome |-> [exc |-> "none", partitions |-> <<>>]])
           /\ future_to_task' = Put(future_to_task, f, id)
           /\ inflight_tasks' = Put(inflight_tasks, id, next_step)
           /\ inflight_tasks_resources' =
                  Put(inflight_tasks_resources, id, next_step.resource_request)
    /\ NextOfPlan
    /\ UNCHANGED <<runner_vars, done_set, yielded, task_vars, pset_vars>>

\* A worker thread runs build_partitions for a submitted task to its end.
WorkerRun(f) ==
    /\ f \in DOMAIN future
    /\ future[f].state = "running"
    /\ future' = [future EXCEPT
                    ![f].state = "finished",
                    ![f].outcome = build_partitions(future[f].instructions,
                                                    future[f].inputs)]
    /\ runs' = [runs EXCEPT ![future[f].id] = @ + 1]
    /\ UNCHANGED <<runner_vars, pc, err, plan_vars, ledger_vars, done_set,
                   yielded, sets, result, pset_vars>>

\* ----------------------------------------------------------- the await phase
\* The assertion that is compiled away.
MutDeadlockAssertOff(futures) == TRUE

\* The assertion that always passes.
MutDeadlockAssert(futures) == Cardinality(DOMAIN futures) >= 0

\* assert len(future_to_task) > 0
DeadlockAssert(futures) == Cardinality(DOMAIN futures) > 0

AwaitAssert ==
    /\ pc = "await"
    /\ IF DeadlockAssert(future_to_task)
       THEN pc' = "wait" /\ err' = err
       ELSE Leave("AssertionError")
    /\ UNCHANGED <<runner_vars, plan_vars, ledger_vars, future, done_set,
                   yielded, task_vars, pset_vars>>

\* The wait that hands back every future, finished or not.
MutAwaitWait ==
    /\ pc = "wait"
    /\ done_set' = DOMAIN future_to_task
    /\ pc' = "process"
    /\ UNCHANGED <<runner_vars, err, plan_vars, ledger_vars, future, yielded,
                   task_vars, pset_vars>>

\* futures.wait(..., return_when=FIRST_COMPLETED): returns once at least one
\* of the futures has finished, with finished futures only.
AwaitWait ==
    /\ pc = "wait"
    /\ \E D \in SUBSET (DOMAIN future_to_task) :
          /\ D # {}
          /\ \A f \in D : future[f].state = "finished"
          /\ done_set' = D
    /\ pc' = "process"
    /\ UNCHANGED <<runner_vars, err, plan_vars, ledger_vars, future, yielded,
                   task_vars, pset_vars>>

\* The iteration that leaves the resources of the done task in the ledger.
MutProcessDone(done_future) ==
    /\ pc = "process"
    /\ done_future \in done_set
    /\ LET done_id == future_to_task[done_future]
           outcome == future[done_future].outcome
       IN  /\ future_to_task' = Drop(future_to_task, done_future)
           /\ inflight_tasks_resources' = inflight_tasks_resources
           /\ inflight_tasks' = Drop(inflight_tasks, done_id)
           /\ future' = Drop(future, done_future)
           /\ IF outcome.exc # "none"
              THEN /\ Leave(outcome.exc)
                   /\ done_set' = {}
                   /\ UNCHANGED <<sets, result>>
              ELSE /\ sets' = [sets EXCEPT ![done_id] = @ + 1]
                   /\ result' = [result EXCEPT
                                   ![done_id] = Materialize(outcome.partitions)]
                   /\ done_set' = done_set \ {done_future}
                   /\ UNCHANGED <<pc, err>>
    /\ UNCHANGED <<runner_vars, plan_vars, yielded, runs, pset_vars>>

\* One iteration of the loop over done_set.
ProcessDone(done_future) ==
    /\ pc = "process"
    /\ done_future \in done_set
    /\ LET done_id == future_to_task[done_future]
           outcome == future[done_future].outcome
       IN  /\ future_to_task' = Drop(future_to_task, done_future)
           /\ inflight_tasks_resources' = Drop(inflight_tasks_resources, done_id)
           /\ inflight_tasks' = Drop(inflight_tasks, done_id)
           /\ future' = Drop(future, done_future)
           /\ IF outcome.exc # "none"
              THEN /\ Leave(outcome.exc)
                   /\ done_set' = {}
                   /\ UNCHANGED <<sets, result>>
              ELSE /\ sets' = [sets EXCEPT ![done_id] = @ + 1]
                   /\ result' = [result EXCEPT
                                   ![done_id] = Materialize(outcome.partitions)]
                   /\ done_set' = done_set \ {done_future}
                   /\ UNCHANGED <<pc, err>>
    /\ UNCHANGED <<runner_vars, plan_vars, yielded, runs, pset_vars>>

\* The test that pulls a new step after every Await phase.
MutNothingPending(step) == TRUE

\* if next_step is None
NothingPending(step) == step.kind = "none"

\* After the loop: pull a new step if none is pending, and dispatch again.
AwaitEnd ==
    /\ pc = "process"
    /\ done_set = {}
    /\ IF NothingPending(next_step)
       THEN NextOfPlan
       ELSE pc' = "dispatch" /\ UNCHANGED <<err, plan_vars>>
    /\ UNCHANGED <<runner_vars, ledger_vars, future, done_set, yielded,
                   task_vars, pset_vars>>

\* Leaving the with block: ThreadPoolExecutor.__exit__ waits for the workers.
Shutdown ==
    /\ pc = "shutdown"
    /\ \A f \in DOMAIN future : future[f].state = "finished"
    /\ pc' = IF err = "none" THEN "returned" ELSE "raised"
    /\ UNCHANGED <<runner_vars, err, plan_vars, ledger_vars, future, done_set,
                   yielded, task_vars, pset_vars>>

\* ------------------------------------------------------------ PyRunner.run
\* results = list(self.run_iter(builder)) has returned; one iteration of
\* the loop over enumerate(results).
RunSetPartition ==
    /\ pc = "returned"
    /\ i < Len(yielded)
    /\ partitions' = set_partition(partitions, i, yielded[i + 1])
    /\ i' = i + 1
    /\ UNCHANGED <<runner_vars, pc, err, plan_vars, ledger_vars, future,
                   done_set, yielded, task_vars, cache, merged, sized>>

\* The registration that does not wait for the end of the loop.
MutRunRegister ==
    /\ pc = "returned"
    /\ i <= Len(yielded)
    /\ cache' = Append(cache, partitions)
    /\ pc' = "registered"
    /\ UNCHANGED <<runner_vars, err, plan_vars, ledger_vars, future, done_set,
                   yielded, task_vars, i, partitions, merged, sized>>

\* After the loop: put_partition_set_into_cache(result_pset).
RunRegister ==
    /\ pc = "returned"
    /\ i = Len(yielded)
    /\ cache' = Append(cache, partitions)
    /\ pc' = "registered"
    /\ UNCHANGED <<runner_vars, err, plan_vars, ledger_vars, future, done_set,
                   yielded, task_vars, i, partitions, merged, sized>>

Next ==
    \/ Start
    \/ DispatchNone
    \/ DispatchResult
    \/ DispatchInvalid
    \/ DispatchRefused
    \/ RunInline
    \/ Submit
    \/ \E f \in DOMAIN future : WorkerRun(f)
    \/ AwaitAssert
    \/ AwaitWait
    \/ \E f \in done_set : ProcessDone(f)
    \/ AwaitEnd
    \/ Shutdown
    \/ RunSetPartition
    \/ RunRegister

Spec == Init /\ [][Next]_vars

\* ------------------------------------------------------------- scheduling
\* The steps of the control thread: the thread that runs run, the loop and
\* its caller.
ControlThread ==
    \/ Start
    \/ DispatchNone
    \/ DispatchResult
    \/ DispatchInvalid
    \/ DispatchRefused
    \/ RunInline
    \/ Submit
    \/ AwaitAssert
    \/ AwaitWait
    \/ \E f \in done_set : ProcessDone(f)
    \/ AwaitEnd
    \/ Shutdown
    \/ RunSetPartition
    \/ RunRegister

\* The control thread keeps running while it has a step to take, and the
\* thread pool keeps running the tasks submitted to it.
Fairness ==
    /\ WF_vars(ControlThread)
    /\ WF_vars(\E f \in DOMAIN future : WorkerRun(f))

\* The plans the scheduling is followed on: tasks of the thread pool that
\* do and do not fit together, a task of the main thread, a task no host
\* can run, and a task that fails.
FairTaskKinds ==
    {<<(<<"rev">>), ResourceRequest(c, None, None)>> : c \in {2, 3, 5}}
    \cup {<<(<<"rev">>), ResourceRequest(None, 1, None)>>,
          <<(<<"raise">>), ResourceRequest(None, None, None)>>}

InitFair == InitWith("start", FairTaskKinds)

FairSpec == InitFair /\ [][Next]_vars /\ Fairness

\* ------------------------------------------- LocalPartitionSet on its own
\* A LocalPartitionSet({}) and the calls a client makes on it.
InitPartitionSet == InitAt("partition_set")

Indices == 0..MaxIdx

SetPartition(idx, part) ==
    /\ pc = "partition_set"
    /\ partitions' = set_partition(partitions, idx, part)
    /\ merged' = NotMerged
    /\ sized' = NotSized
    /\ UNCHANGED <<runner_vars, pc, err, plan_vars, ledger_vars, future,
                   done_set, yielded, task_vars, i, cache>>

\* Deleting an absent idx raises KeyError and leaves the set as it is.
DeletePartition(idx) ==
    /\ pc = "partition_set"
    /\ has_partition(partitions, idx)
    /\ partitions' = delete_partition(partitions, idx)
    /\ merged' = NotMerged
    /\ sized' = NotSized
    /\ UNCHANGED <<runner_vars, pc, err, plan_vars, ledger_vars, future,
                   done_set, yielded, task_vars, i, cache>>

GetMergedVPartition ==
    /\ pc = "partition_set"
    /\ merged' = [of |-> partitions, out |-> get_merged_vpartition(partitions)]
    /\ UNCHANGED <<runner_vars, pc, err, plan_vars, ledger_vars, future,
                   done_set, yielded, task_vars, i, partitions, cache, sized>>

\* The size_bytes that counts a partition of unknown size as empty.
MutSizeBytes ==
    /\ pc = "partition_set"
    /\ sized' = [called |-> TRUE, of |-> partitions,
                 out |-> SumSeq(SelectSeq(
                            [k \in 1..Len(partitions) |->
                                partition_size_bytes(partitions[k][2])],
                            LAMBDA size : size # None))]
    /\ UNCHANGED <<runner_vars, pc, err, plan_vars, ledger_vars, future,
                   done_set, yielded, task_vars, i, partitions, cache, merged>>

SizeBytes ==
    /\ pc = "partition_set"
    /\ sized' = [called |-> TRUE, of |-> partitions,
                 out |-> size_bytes(partitions)]
    /\ UNCHANGED <<runner_vars, pc, err, plan_vars, ledger_vars, future,
                   done_set, yielded, task_vars, i, partitions, cache, merged>>

\* The partitions a client stores: those of a plan and one of unknown size.
StoredPartitions == Partitions \cup UnsizedPartitions

NextPartitionSet ==
    \/ \E idx \in Indices, p \in StoredPartitions :
          SetPartition(idx, PyMaterializedResult(p))
    \/ \E idx \in Indices : DeletePartition(idx)
    \/ GetMergedVPartition
    \/ SizeBytes

SpecPartitionSet == InitPartitionSet /\ [][NextPartitionSet]_vars

\* ====================================================================
\* Properties
\* ====================================================================
\* The tasks in flight: submitted to the thread pool, completion not yet
\* processed by the control thread.
InFlightIds == {future[f].id : f \in DOMAIN future}

RECURSIVE SumOver(_, _)
SumOver(ids, amount) ==
    IF ids = {} THEN 0
    ELSE LET x == CHOOSE x \in ids : TRUE
         IN  amount[x] + SumOver(ids \ {x}, amount)

Cpus == [id \in DOMAIN task |->
            IF task[id].resource_request.num_cpus = None
            THEN 0 ELSE task[id].resource_request.num_cpus]
Gpus == [id \in DOMAIN task |->
            IF task[id].resource_request.num_gpus = None
            THEN 0 ELSE task[id].resource_request.num_gpus]
Memory == [id \in DOMAIN task |->
            IF task[id].resource_request.memory_bytes = None
            THEN 0 ELSE task[id].resource_request.memory_bytes]

\* C1: Capacity invariant.  In every reachable state the CPU counts, the GPU
\* counts and the memory bytes requested by the tasks in flight, an unset
\* field counting as 0, each sum to at most the capacity of the runner.
C1_CapacityInvariant ==
    /\ SumOver(InFlightIds, Cpus) <= num_cpus
    /\ SumOver(InFlightIds, Gpus) <= num_gpus
    /\ SumOver(InFlightIds, Memory) <= bytes_memory

\* Two tasks in flight that fill the CPUs and ask for memory as well.
C1_Witness ==
    /\ Cardinality(InFlightIds) >= 2
    /\ SumOver(InFlightIds, Cpus) = num_cpus
    /\ SumOver(InFlightIds, Memory) > 0

\* A request that alone exceeds the capacity in some dimension.
ExceedsCapacity(req) ==
    \/ req.num_cpus # None /\ req.num_cpus > num_cpus
    \/ req.num_gpus # None /\ req.num_gpus > num_gpus
    \/ req.memory_bytes # None /\ req.memory_bytes > bytes_memory

Ended == pc \in {"shutdown", "returned", "raised", "registered"}

\* C2: Validation invariant.  A task whose request alone exceeds the
\* capacity is, once pulled, either the pending step about to be dispatched
\* or the reason the run has ended with RuntimeError; its pipeline never
\* runs, its result is never set and it is never in flight or in the ledger.
C2_ValidationInvariant ==
    \A id \in DOMAIN task :
        ExceedsCapacity(task[id].resource_request) =>
            /\ \/ pc = "dispatch" /\ next_step.kind = "task" /\ next_step.id = id
               \/ Ended /\ err = "RuntimeError" /\ next_step.id = id
            /\ runs[id] = 0
            /\ sets[id] = 0
            /\ id \notin InFlightIds
            /\ id \notin DOMAIN inflight_tasks
            /\ id \notin DOMAIN inflight_tasks_resources
            /\ id \notin Range(future_to_task)

\* The run has ended with RuntimeError on an oversized task that was reached
\* while another task was in flight and that would have fitted beside it had
\* it been valid in the dimension it exceeds.
C2_Witness ==
    /\ pc = "raised"
    /\ err = "RuntimeError"
    /\ next_step.kind = "task"
    /\ ExceedsCapacity(next_step.resource_request)
    /\ DOMAIN inflight_tasks # {}

\* C3: Order preservation.  The results yielded are the final results the
\* plan has produced, in the order it produced them, none dropped and none
\* twice; only a result that is the pending step of the dispatch loop has
\* yet to be yielded.
C3_OrderPreservation ==
    LET pending == pc = "dispatch" /\ next_step.kind = "result"
        due == IF pending THEN SubSeq(produced, 1, Len(produced) - 1)
               ELSE produced
    IN  /\ Len(yielded) = Len(due)
        /\ \A k \in 1..Len(due) : partition(yielded[k]) = due[k]

\* The loop has returned after yielding two different results, with a task
\* run by the thread pool in the meantime.
C3_Witness ==
    /\ pc = "returned"
    /\ exhausted
    /\ Len(yielded) = 2
    /\ yielded[1] # yielded[2]
    /\ \E id \in DOMAIN task : runs[id] = 1 /\ ~RunsInline(task[id])

\* The pipeline of a task fails when run.
Fails(id) == build_partitions(task[id].instructions, task[id].inputs).exc # "none"

\* C4: No double execution.  No pipeline runs twice and no result slot is
\* set twice; when the loop has returned, every task pulled has run once
\* and had its result set once; and when it has returned on plan
\* exhaustion, nothing is left in flight.
C4_NoDoubleExecution ==
    /\ \A id \in DOMAIN task : runs[id] <= 1 /\ sets[id] <= 1
    /\ pc = "returned" =>
          \A id \in DOMAIN task : runs[id] = 1 /\ sets[id] = 1
    /\ (pc = "returned" /\ exhausted) =>
          InFlightIds = {} /\ DOMAIN future_to_task = {}

\* C5: No failure is silently swallowed.  Once the pipeline of a task that
\* was executed, inline or on the thread pool, has raised, the run does not
\* end normally: the loop does not return, and run registers nothing.
C5_NoSwallowedFailure ==
    (\E id \in DOMAIN task : runs[id] >= 1 /\ Fails(id)) =>
        pc \notin {"returned", "registered"}

\* C6: Deadlock detection.  From the Await phase with nothing in flight the
\* control thread does nothing but fail the assertion, and it never reaches
\* the first-completion wait with an empty in-flight set.
C6_DeadlockDetection ==
    [][/\ (pc = "await" /\ DOMAIN future_to_task = {}) =>
             \/ pc' = "await" /\ DOMAIN future_to_task' = {}
             \/ pc' = "shutdown" /\ err' = "AssertionError"
       /\ pc' = "wait" => DOMAIN future_to_task' # {}]_vars

\* The run has ended with the deadlock error on a NeedsMoreProgress step
\* that was pulled after an earlier task had been run.
C6_Witness ==
    /\ pc = "raised"
    /\ err = "AssertionError"
    /\ next_step.kind = "none"
    /\ DOMAIN future_to_task = {}
    /\ \E id \in DOMAIN task : sets[id] = 1

\* The indices of a partition set.
IndicesOf(ps) == {ps[k][1] : k \in 1..Len(ps)}

\* C7: run registers only after full materialization.  Nothing is in the
\* cache before run has finished its loop, nor ever when run_iter has
\* raised; the one set that is registered has the indices 0..n-1 for the n
\* results yielded, and holds at i the partition of the i-th result.
C7_RegisterAfterMaterialization ==
    /\ (pc # "registered" \/ err # "none") => cache = <<>>
    /\ cache # <<>> =>
          /\ Len(cache) = 1
          /\ IndicesOf(cache[1]) = 0..(Len(yielded) - 1)
          /\ Len(cache[1]) = Len(yielded)
          /\ \A k \in 0..(Len(yielded) - 1) :
                get_partition(cache[1], k) = partition(yielded[k + 1])

\* A set of two different partitions has been registered.
C7_Witness ==
    /\ pc = "registered"
    /\ Len(cache) = 1
    /\ Len(cache[1]) = 2
    /\ cache[1][1][2] # cache[1][2][2]

\* The indices of ps are exactly 0..n-1 for its n partitions.
Contiguous(ps) == IndicesOf(ps) = 0..(Len(ps) - 1)

\* The partitions at the indices 0..n-1 of ps, one after the other.
RECURSIVE ConcatUpTo(_, _)
ConcatUpTo(ps, n) ==
    IF n = 0 THEN <<>>
    ELSE ConcatUpTo(ps, n - 1) \o get_partition(ps, n - 1)

Merged == merged.out.exc # "unset"

\* C8 as claimed: Merge contiguity.  On a set with the indices 0..n-1 the
\* merge returns the partitions concatenated in ascending index order,
\* whatever the insertion order; on any other set it fails with an error.
C8_MergeContiguity_Claimed ==
    Merged =>
        IF Contiguous(merged.of)
        THEN /\ merged.out.exc = "none"
             /\ merged.out.partition = ConcatUpTo(merged.of, Len(merged.of))
        ELSE merged.out.exc # "none"

\* C8 amended: Merge contiguity holds for n >= 1; the merge of an empty
\* set fails with an error, like the merge of a set with a gap or with a
\* minimum index other than 0.
C8_MergeContiguity ==
    Merged =>
        IF Contiguous(merged.of) /\ Len(merged.of) >= 1
        THEN /\ merged.out.exc = "none"
             /\ merged.out.partition = ConcatUpTo(merged.of, Len(merged.of))
        ELSE merged.out.exc # "none"

\* A merge has returned for a set that was filled in descending index order
\* with different partitions.
C8_Witness ==
    /\ Merged
    /\ merged.out.exc = "none"
    /\ Len(merged.of) >= 2
    /\ merged.of[1][1] > merged.of[2][1]
    /\ merged.of[1][2] # merged.of[2][2]

\* A task the thread pool is eligible for.
PoolEligible(step) ==
    /\ Len(step.instructions) > 0
    /\ step.resource_request.num_gpus \in {None, 0}

\* The plan of the example: the runner has 4 CPUs and a thread pool, the
\* first step is task A asking for 2 CPUs and the second is task B asking
\* for 3 CPUs.
BackpressureExample ==
    /\ num_cpus = 4
    /\ use_thread_pool
    /\ {1, 2} \subseteq DOMAIN task
    /\ task[1].resource_request = ResourceRequest(2, None, None)
    /\ task[2].resource_request = ResourceRequest(3, None, None)
    /\ PoolEligible(task[1])
    /\ PoolEligible(task[2])

InLedger(id) ==
    \/ id \in DOMAIN inflight_tasks
    \/ id \in DOMAIN inflight_tasks_resources
    \/ id \in Range(future_to_task)

\* C9: Backpressure example.  A was dispatched at once, before B was pulled;
\* A and B are never in flight together; and B is dispatched only when A's
\* completion has been processed: A is out of the ledger with its result
\* recorded.
C9_Backpressure ==
    BackpressureExample =>
        /\ 1 \in InFlightIds \/ runs[1] = 1
        /\ ~(1 \in InFlightIds /\ 2 \in InFlightIds)
        /\ (2 \in InFlightIds \/ runs[2] > 0) =>
              /\ 1 \notin InFlightIds
              /\ ~InLedger(1)
              /\ sets[1] = 1

\* B is in flight, after A.
C9_Witness ==
    /\ BackpressureExample
    /\ 2 \in InFlightIds
    /\ InLedger(2)

\* C10: No-op task.  A task with an empty instruction list is never in
\* flight nor in the ledger; once the scheduler has moved past it, it has
\* run once in the main thread and its result is its inputs, in order.
C10_NoOpTask ==
    \A id \in DOMAIN task :
        task[id].instructions = <<>> =>
            /\ id \notin InFlightIds
            /\ ~InLedger(id)
            /\ runs[id] = sets[id]
            /\ sets[id] <= 1
            /\ pulled > id => sets[id] = 1
            /\ sets[id] = 1 =>
                  /\ Len(result[id]) = Len(task[id].inputs)
                  /\ \A k \in 1..Len(result[id]) :
                        partition(result[id][k]) = task[id].inputs[k]

\* With the thread pool in use, a no-op task that asks for CPUs has been
\* admitted beside a task in flight and has run in the main thread.
C10_Witness ==
    /\ use_thread_pool
    /\ InFlightIds # {}
    /\ \E id \in DOMAIN task :
          /\ task[id].instructions = <<>>
          /\ task[id].resource_request.num_cpus = 2
          /\ sets[id] = 1
          /\ Len(result[id]) = 2

\* The control thread takes a step of the dispatch loop.
DispatchStep == pc = "dispatch" /\ (pc' # pc \/ pulled' # pulled)

\* The three conditions of the placement policy.
InlineByPolicy(step) ==
    \/ ~use_thread_pool
    \/ step.instructions = <<>>
    \/ step.resource_request.num_gpus \notin {None, 0}

\* C11: Placement policy.  An admitted task runs in the main thread, with
\* its result set before the next step is pulled, exactly if the thread pool
\* is disabled, its instruction list is empty or it asks for more than zero
\* GPUs; otherwise it is submitted to the thread pool and the next step is
\* pulled without its pipeline having run.
C11_PlacementPolicy ==
    [][(Admitted /\ DispatchStep) =>
          LET id == next_step.id
          IN  IF InlineByPolicy(next_step)
              THEN /\ runs'[id] = 1
                   /\ UNCHANGED <<ledger_vars, future>>
                   /\ pulled' # pulled => sets'[id] = 1
                   /\ sets'[id] = 1 \/ pc' = "shutdown"
              ELSE /\ runs'[id] = 0
                   /\ sets'[id] = 0
                   /\ id \in InFlightIds'
                   /\ id \in DOMAIN inflight_tasks'
                   /\ pulled' = pulled + 1 \/ exhausted']_vars

\* With the thread pool in use, a task asking for a GPU has run in the main
\* thread and a task asking for 0 GPUs is in flight, not yet run, with the
\* step after it already pulled.
C11_Witness ==
    /\ use_thread_pool
    /\ \E id \in DOMAIN task :
          /\ task[id].resource_request.num_gpus = 1
          /\ sets[id] = 1
    /\ \E id \in InFlightIds :
          /\ task[id].resource_request.num_gpus = 0
          /\ runs[id] = 0
          /\ pulled > id

\* The amount a request asks for in one dimension, unset counting as 0.
Asked(x) == IF x = None THEN 0 ELSE x

CpusFit(req) == SumOver(InFlightIds, Cpus) + Asked(req.num_cpus) <= num_cpus
GpusFit(req) == SumOver(InFlightIds, Gpus) + Asked(req.num_gpus) <= num_gpus
MemoryFits(req) ==
    SumOver(InFlightIds, Memory) + Asked(req.memory_bytes) <= bytes_memory

\* C12: Admission decision.  A task step that passes validation is refused,
\* the loop going to the Await phase, exactly if in some dimension what is
\* in flight plus the request exceeds the capacity; a refusal leaves the
\* in-flight set and the ledger as they are, and no step changes the
\* capacity.
C12_AdmissionDecision ==
    [][/\ UNCHANGED runner_vars
       /\ (DispatchStep /\ next_step.kind = "task"
              /\ ~ExceedsCapacity(next_step.resource_request)) =>
            LET req == next_step.resource_request
                fits == CpusFit(req) /\ GpusFit(req) /\ MemoryFits(req)
            IN  /\ pc' = "await" <=> ~fits
                /\ pc' = "await" =>
                      UNCHANGED <<ledger_vars, future, task_vars, plan_vars>>]_vars

\* A task is refused for its memory alone: its CPUs and GPUs fit beside
\* what is in flight.
C12_Witness ==
    /\ pc = "await"
    /\ next_step.kind = "task"
    /\ next_step.resource_request.num_cpus = 3
    /\ CpusFit(next_step.resource_request)
    /\ GpusFit(next_step.resource_request)
    /\ ~MemoryFits(next_step.resource_request)

\* C13: A refused step is not discarded.  While a task is the pending step
\* nothing is yielded, and it stays the pending step, through the Await
\* phase and back into the dispatch loop, until the dispatch loop has run it
\* or put it in flight; only then is another step pulled.
C13_RefusedStepKept ==
    [][next_step.kind = "task" =>
          /\ yielded' = yielded
          /\ next_step' # next_step =>
                /\ pc = "dispatch"
                /\ pulled' = pulled + 1
                /\ \/ next_step.id \in InFlightIds'
                   \/ sets'[next_step.id] = 1
          /\ next_step' = next_step =>
                \/ pulled' = pulled
                \/ next_step.id \in InFlightIds'
                \/ sets'[next_step.id] = 1]_vars

\* The second task, refused for its memory while the first was in flight,
\* is in flight itself after the first has been processed.
C13_Witness ==
    /\ {1, 2} \subseteq DOMAIN task
    /\ task[1].resource_request.memory_bytes = 2
    /\ task[2].resource_request.memory_bytes = 2
    /\ ~InlineByPolicy(task[1])
    /\ sets[1] = 1
    /\ 2 \in InFlightIds

\* C14: First-completion wait.  The wait hands back at least one future and
\* finished futures of the in-flight set only; each of them in turn leaves
\* the three tables, its result being set unless it failed, while every
\* other entry stays; the loop neither dispatches nor pulls before all of
\* them are processed; and a task still running is never removed.
C14_FirstCompletionWait ==
    [][/\ (pc = "wait" /\ pc' = "process") =>
             /\ done_set' # {}
             /\ done_set' \subseteq DOMAIN future_to_task
             /\ \A f \in done_set' : future[f].state = "finished"
       /\ (pc = "process" /\ done_set' # done_set) =>
             \E f \in done_set :
                LET id == future_to_task[f]
                IN  /\ DOMAIN future_to_task' = DOMAIN future_to_task \ {f}
                    /\ DOMAIN inflight_tasks' = DOMAIN inflight_tasks \ {id}
                    /\ DOMAIN inflight_tasks_resources'
                          = DOMAIN inflight_tasks_resources \ {id}
                    /\ InFlightIds' = InFlightIds \ {id}
                    /\ \/ sets'[id] = 1 /\ done_set' = done_set \ {f}
                       \/ pc' = "shutdown" /\ Fails(id)
       /\ (pc = "process" /\ (pc' = "dispatch" \/ pulled' # pulled)) =>
             done_set = {}
       /\ \A f \in DOMAIN future_to_task :
             future[f].state = "running" => f \in DOMAIN future_to_task']_vars

\* An Await phase is over with the second of two tasks processed while the
\* first, submitted earlier, is still in flight and has not run.
C14_Witness ==
    /\ pc = "process"
    /\ done_set = {}
    /\ {1, 2} \subseteq DOMAIN task
    /\ sets[2] = 1
    /\ ~InlineByPolicy(task[2])
    /\ 1 \in InFlightIds
    /\ runs[1] = 0

\* The exception the pipeline of a task raises.
ExcOf(id) == build_partitions(task[id].instructions, task[id].inputs).exc

\* The control thread has met the failure of a task: in the main thread, or
\* when it processed the task's future.
FailureMet(id) == runs[id] >= 1 /\ Fails(id) /\ id \notin InFlightIds

\* C15: Instruction failure aborts the run.  Once the scheduler has met the
\* failure of a task, the task has run once and has no result, the loop has
\* stopped dispatching, and the run ends with that failure as its error.
C15_FailureAborts ==
    \A id \in DOMAIN task :
        FailureMet(id) =>
            /\ runs[id] = 1
            /\ sets[id] = 0
            /\ pc \in {"shutdown", "raised"}
            /\ err = ExcOf(id)

\* The task ids a table of the ledger describes.
LedgerIds == [tasks |-> DOMAIN inflight_tasks,
              resources |-> DOMAIN inflight_tasks_resources,
              futures |-> Range(future_to_task)]

\* The three tables describe the tasks in flight, each with the step and the
\* request it was submitted with.
LedgerAgrees ==
    /\ LedgerIds.tasks = InFlightIds
    /\ LedgerIds.resources = InFlightIds
    /\ LedgerIds.futures = InFlightIds
    /\ DOMAIN future_to_task = DOMAIN future
    /\ \A f \in DOMAIN future_to_task : future_to_task[f] = future[f].id
    /\ \A id \in InFlightIds :
          /\ inflight_tasks[id] = task[id]
          /\ inflight_tasks_resources[id] = task[id].resource_request

\* C16: Ledger consistency.  Whenever the loop is about to decide on a step,
\* inflight_tasks, inflight_tasks_resources and future_to_task describe the
\* same task ids, namely the tasks submitted to the thread pool whose
\* completion is not processed yet; an id enters a table only when the task
\* pending at dispatch is submitted, and leaves it only when the finished
\* future of that task is processed.
C16_LedgerConsistency ==
    [][/\ pc' = "dispatch" => LedgerAgrees'
       /\ \A tbl \in DOMAIN LedgerIds :
             /\ \A id \in LedgerIds'[tbl] \ LedgerIds[tbl] :
                   /\ pc = "dispatch"
                   /\ next_step.kind = "task"
                   /\ id = next_step.id
                   /\ ~RunsInline(next_step)
                   /\ InFlightIds' = InFlightIds \cup {id}
             /\ \A id \in LedgerIds[tbl] \ LedgerIds'[tbl] :
                   /\ pc = "process"
                   /\ \E f \in done_set :
                         /\ future[f].id = id
                         /\ future[f].state = "finished"
                   /\ InFlightIds' = InFlightIds \ {id}]_vars

\* An admission decision with one task in flight and the completion of
\* another, submitted along with it, processed.
C16_Witness ==
    /\ pc = "dispatch"
    /\ next_step.kind = "task"
    /\ InFlightIds # {}
    /\ LedgerIds.resources = InFlightIds
    /\ \E id \in DOMAIN task :
          /\ id < next_step.id
          /\ ~RunsInline(task[id])
          /\ sets[id] = 1
          /\ id \notin LedgerIds.resources

\* The total of the known sizes among the stored partitions.
RECURSIVE KnownTotal(_, _)
KnownTotal(ps, idxs) ==
    IF idxs = {} THEN 0
    ELSE LET idx == CHOOSE x \in idxs : TRUE
             size == partition_size_bytes(get_partition(ps, idx))
         IN  KnownTotal(ps, idxs \ {idx}) + (IF size = None THEN 0 ELSE size)

SomeSizeUnknown(ps) ==
    \E idx \in IndicesOf(ps) :
        partition_size_bytes(get_partition(ps, idx)) = None

\* C17: size_bytes.  After any sequence of set_partition and delete_partition
\* calls, size_bytes returns None if one of the partitions now stored reports
\* no size, and otherwise the sum of the sizes of the partitions now stored,
\* 0 for the empty set; a partition overwritten or deleted does not count.
C17_SizeBytes ==
    sized.called =>
        /\ sized.of = partitions
        /\ sized.out = IF SomeSizeUnknown(partitions) THEN None
                       ELSE KnownTotal(partitions, IndicesOf(partitions))

\* size_bytes has returned None for a set that holds a partition of known,
\* non-zero size next to one of unknown size.
C17_Witness ==
    /\ sized.called
    /\ sized.out = None
    /\ Len(partitions) >= 2
    /\ \E idx \in IndicesOf(partitions) :
          partition_size_bytes(get_partition(partitions, idx)) > 0
    /\ SomeSizeUnknown(partitions)

\* Nothing is registered as in flight.
ZeroLoad ==
    /\ InFlightIds = {}
    /\ DOMAIN inflight_tasks = {}
    /\ DOMAIN inflight_tasks_resources = {}
    /\ DOMAIN future_to_task = {}

\* The loop has left the dispatch phase with a Task step it refused.
RefusedPending == pc = "await" /\ next_step.kind = "task"

\* C18: No refusal at zero load.  A Task step whose request passes the
\* validation is admitted when nothing is in flight, so a refused step goes
\* to the Await phase with a task in flight; the deadlock assertion fails
\* only with a None step pending and nothing in flight; and with the thread
\* pool disabled nothing is ever in flight and no Task step is ever refused.
C18_NoRefusalAtZeroLoad ==
    /\ (pc = "dispatch" /\ next_step.kind = "task" /\ ZeroLoad
           /\ ~CheckRaises(next_step.resource_request))
          => CanAdmitTask(next_step.resource_request, inflight_tasks_resources)
    /\ RefusedPending => ~ZeroLoad
    /\ err = "AssertionError" => next_step.kind = "none" /\ ZeroLoad
    /\ ~use_thread_pool =>
          /\ ZeroLoad
          /\ ~(pc \in {"await", "wait", "process"} /\ next_step.kind = "task")

\* With the thread pool disabled, two tasks that together ask for more CPUs
\* than the host has have run one after the other, and the None step pulled
\* after them has made the deadlock assertion fail.
C18_Witness ==
    /\ ~use_thread_pool
    /\ err = "AssertionError"
    /\ {1, 2} \subseteq DOMAIN task
    /\ sets[1] = 1
    /\ sets[2] = 1
    /\ OrZero(task[1].resource_request.num_cpus)
          + OrZero(task[2].resource_request.num_cpus) > num_cpus

\* The dispatch step that runs the pending task in the main thread.
InlineRunStep ==
    /\ DispatchStep
    /\ next_step.kind = "task"
    /\ runs'[next_step.id] # runs[next_step.id]

\* No GPU is held by what is in flight, by the tasks or by the ledger.
NoGpuInFlight ==
    /\ SumOver(InFlightIds, Gpus) = 0
    /\ OrZero(SumRequests(inflight_tasks_resources).num_gpus) = 0

\* The GPU comparison of the admission test, as the code computes it.
GpusOkay ==
    OrZero(SumRequests(inflight_tasks_resources).num_gpus)
        + OrZero(next_step.resource_request.num_gpus) <= num_gpus

\* C19: Inline execution and the ledger.  Running a task in the main thread
\* leaves inflight_tasks, inflight_tasks_resources and future_to_task as
\* they are; the GPUs of the tasks in flight sum to 0 in every state; and
\* the GPU comparison of the admission test holds for every pending Task
\* step whose request passes the validation.
C19_InlineLeavesLedger ==
    /\ [][InlineRunStep => UNCHANGED <<ledger_vars, future>>]_vars
    /\ [](/\ NoGpuInFlight
          /\ (next_step.kind = "task"
                 /\ ~CheckRaises(next_step.resource_request)) => GpusOkay)

\* A task asking for a GPU has run in the main thread while another task
\* was in flight, and the next Task step, asking for a GPU too, is up for
\* admission with that task still in flight.
C19_Witness ==
    /\ pc = "dispatch"
    /\ next_step.kind = "task"
    /\ next_step.resource_request.num_gpus = 1
    /\ InFlightIds # {}
    /\ \E id \in DOMAIN task :
          /\ id < next_step.id
          /\ task[id].resource_request.num_gpus = 1
          /\ use_thread_pool
          /\ sets[id] = 1
          /\ \E other \in InFlightIds : other < id

\* run_iter is over: the generator has returned or raised.
LoopOver == pc \in {"returned", "raised", "registered"}

\* C20: Termination.  With a plan of finitely many steps, workers that
\* finish the tasks submitted to them and a caller that keeps consuming, the
\* scheduler loop ends, by returning or by raising; and a Task step refused
\* admission is admitted later on, unless the run ends first.
C20_Termination ==
    /\ <>LoopOver
    /\ RefusedPending ~> (Admitted \/ Ended)

\* The loop has returned after two tasks of the thread pool that together
\* ask for more CPUs than the host has: the second was refused while the
\* first was in flight, and admitted after an Await phase.
C20_Witness ==
    /\ pc = "returned"
    /\ exhausted
    /\ use_thread_pool
    /\ DOMAIN task = {1, 2}
    /\ Cpus[1] + Cpus[2] > num_cpus
    /\ \A id \in DOMAIN task :
          /\ ~InlineByPolicy(task[id])
          /\ sets[id] = 1

====
